---- MODULE Spec2Model ----
(***************************************************************************)
(* A model of gfauto's amber_converter.py: the conversion of a SPIR-V      *)
(* assembly shader job (plus an optional reference job) into an AmberScript*)
(* text.  Script text is modelled byte for byte as TLA+ strings; a JSON    *)
(* object (the result of json.loads) is a sequence of [name, entry] pairs  *)
(* in the document's own key order.                                        *)
(***************************************************************************)
EXTENDS Integers, Sequences, FiniteSets, TLC

VARIABLES
    pc,         \* position of the function under execution
    call,       \* the arguments of the function under execution
    ret,        \* what the function returned or raised
    reference,  \* ShaderJobBasedAmberTest.reference, once loaded
    variant,    \* ShaderJobBasedAmberTest.variant, once loaded
    assembler,  \* which pipeline assembler the orchestrator invoked
    result,     \* the script text the assembler returned
    out_file,   \* contents of the destination file, None while not written
    writes      \* number of writes to the destination file

vars == <<pc, call, ret, reference, variant, assembler, result, out_file, writes>>

-----------------------------------------------------------------------------
(* Python values *)

\* Optional[str]: None is <<>>, a string s is <<s>>.
None == <<>>
Some(s) == <<s>>

\* Python truthiness of an Optional[str]: None and "" are both false.
Truthy(o) == o # None /\ o[1] # ""

\* A returned value, or a raised exception.
Return(v) == [ok |-> TRUE, val |-> v]
Raise(e) == [ok |-> FALSE, err |-> e]

\* str(x) of a JSON number; the numbers of the model are integers.
PyStr(x) == ToString(x)

-----------------------------------------------------------------------------
(* Text helpers (str methods) *)

Char(s, i) == SubSeq(s, i, i)

StartsWithAt(s, i, p) ==
    /\ i + Len(p) - 1 <= Len(s)
    /\ SubSeq(s, i, i + Len(p) - 1) = p

\* s.find(p, i), 1-based; 0 when p does not occur from position i on.
IndexFrom(s, i, p) ==
    LET hits == {j \in i..(Len(s) - Len(p) + 1) : StartsWithAt(s, j, p)}
    IN  IF hits = {} THEN 0
        ELSE CHOOSE j \in hits : \A k \in hits : j <= k

IndexOf(s, p) == IndexFrom(s, 1, p)

Contains(s, p) == IndexOf(s, p) # 0

\* s.count(p): the number of non-overlapping occurrences.
RECURSIVE CountFrom(_, _, _)
CountFrom(s, i, p) ==
    LET j == IndexFrom(s, i, p)
    IN  IF j = 0 THEN 0 ELSE 1 + CountFrom(s, j + Len(p), p)

Count(s, p) == CountFrom(s, 1, p)

\* s.split("\n")
RECURSIVE Split(_)
Split(s) ==
    LET j == IndexOf(s, "\n")
    IN  IF j = 0 THEN <<s>>
        ELSE <<SubSeq(s, 1, j - 1)>> \o Split(SubSeq(s, j + 1, Len(s)))

\* sep.join(parts)
RECURSIVE Join(_, _)
Join(parts, sep) ==
    IF parts = <<>> THEN ""
    ELSE IF Len(parts) = 1 THEN parts[1]
    ELSE parts[1] \o sep \o Join(Tail(parts), sep)

\* The characters str.rstrip() removes (str.isspace), as far as a string of the
\* model can hold them: U+0009..U+000D, U+001C..U+0020, U+0085, U+00A0, U+1680.
\* The spaces from U+2000 on (U+2000..U+200A, U+2028, U+2029, U+202F, U+205F,
\* U+3000) are no characters of the model's strings.
VT == ""        \* U+000B
FS == ""        \* U+001C
GS == ""        \* U+001D
RS == ""        \* U+001E
US == ""        \* U+001F
NEL == ""        \* U+0085
NBSP == " "       \* U+00A0
OGHAM == " "      \* U+1680

Whitespace ==
    {"\t", "\n", VT, "\f", "\r", FS, GS, RS, US, " ", NEL, NBSP, OGHAM}

\* s.rstrip()
RECURSIVE RStrip(_)
RStrip(s) ==
    IF s # "" /\ Char(s, Len(s)) \in Whitespace
    THEN RStrip(SubSeq(s, 1, Len(s) - 1))
    ELSE s

\* template.format(name) for a template holding one "{}" field.
Format(template, name) ==
    LET j == IndexOf(template, "{}")
    IN  SubSeq(template, 1, j - 1) \o name \o SubSeq(template, j + 2, Len(template))

-----------------------------------------------------------------------------
(* JSON objects *)

COMPUTE_KEY == "$compute"

HasKey(json, k) == \E i \in DOMAIN json : json[i].name = k

Get(json, k) == json[CHOOSE i \in DOMAIN json : json[i].name = k].entry

RECURSIVE Flatten(_)
Flatten(lists) ==
    IF lists = <<>> THEN <<>> ELSE Head(lists) \o Flatten(Tail(lists))

-----------------------------------------------------------------------------
(* get_text_as_comment *)

\* while not lines[0]: lines.pop(0); lines[0] of an empty list is an IndexError.
RECURSIVE PopLeadingEmpty(_)
PopLeadingEmpty(lines) ==
    IF lines = <<>> THEN Raise("IndexError")
    ELSE IF lines[1] = "" THEN PopLeadingEmpty(Tail(lines))
    ELSE Return(lines)

\* while not lines[-1]: lines.pop()
RECURSIVE PopTrailingEmpty(_)
PopTrailingEmpty(lines) ==
    IF lines = <<>> THEN Raise("IndexError")
    ELSE IF lines[Len(lines)] = ""
    THEN PopTrailingEmpty(SubSeq(lines, 1, Len(lines) - 1))
    ELSE Return(lines)

get_text_as_comment(text) ==
    LET leading == PopLeadingEmpty(Split(text))
        trailing == IF leading.ok THEN PopTrailingEmpty(leading.val) ELSE leading
    IN  IF ~trailing.ok THEN trailing
        ELSE LET lines == trailing.val
             IN  Return(Join([i \in DOMAIN lines |-> RStrip("# " \o lines[i])], "\n"))

\* result += part, for each part in turn: the text of all the parts, or the first
\* exception a part raises.
RECURSIVE Cat(_)
Cat(parts) ==
    IF parts = <<>> THEN Return("")
    ELSE IF ~Head(parts).ok THEN Head(parts)
    ELSE LET rest == Cat(Tail(parts))
         IN  IF rest.ok THEN Return(Head(parts).val \o rest.val) ELSE rest

-----------------------------------------------------------------------------
(* amberscript_comp_buff_def *)

ssbo_types ==
    ("int" :> "int32") @@ ("ivec2" :> "vec2<int32>") @@ ("ivec3" :> "vec3<int32>")
    @@ ("ivec4" :> "vec4<int32>") @@ ("uint" :> "uint32") @@ ("float" :> "float")
    @@ ("vec2" :> "vec2<float>") @@ ("vec3" :> "vec3<float>")
    @@ ("vec4" :> "vec4<float>")

\* The field types the check at line 156 counts.
field_types_set(fields) == {fields[i].type : i \in DOMAIN fields}

\* comp_buff_render sizing the empty buffer by the first field's data alone.
comp_buff_render_first_field(fields, ssbo_type_amber, make_empty_buffer) ==
    LET field_data == [i \in DOMAIN fields |-> fields[i].data]
        flat == Flatten(field_data)
        field_data_flattened_str == [i \in DOMAIN flat |-> PyStr(flat[i])]
    IN  IF make_empty_buffer
        THEN IF field_data_flattened_str = <<>>
             THEN Raise("IndexError")
             ELSE Return("BUFFER {} DATA_TYPE " \o ssbo_type_amber \o " SIZE "
                         \o ToString(Len(field_data[1])) \o " "
                         \o field_data_flattened_str[1] \o "\n")
        ELSE Return("BUFFER {} DATA_TYPE " \o ssbo_type_amber \o " DATA\n"
                    \o " " \o Join(field_data_flattened_str, " ") \o "\n"
                    \o "END\n")

\* The declaration once the type is known: lines 163-183.
comp_buff_render(fields, ssbo_type_amber, make_empty_buffer) ==
    LET field_data == [i \in DOMAIN fields |-> fields[i].data]
        flat == Flatten(field_data)
        field_data_flattened_str == [i \in DOMAIN flat |-> PyStr(flat[i])]
    IN  IF make_empty_buffer
        THEN IF field_data_flattened_str = <<>>
             THEN Raise("IndexError")
             ELSE Return("BUFFER {} DATA_TYPE " \o ssbo_type_amber \o " SIZE "
                         \o ToString(Len(field_data_flattened_str)) \o " "
                         \o field_data_flattened_str[1] \o "\n")
        ELSE Return("BUFFER {} DATA_TYPE " \o ssbo_type_amber \o " DATA\n"
                    \o " " \o Join(field_data_flattened_str, " ") \o "\n"
                    \o "END\n")

\* amberscript_comp_buff_def looking the first field's type up before it checks
\* that all field types are the same.
amberscript_comp_buff_def_lookup_first(comp, make_empty_buffer) ==
    IF ~HasKey(comp, COMPUTE_KEY) THEN Raise("MissingComputeKey")
    ELSE LET fields == Get(comp, COMPUTE_KEY).buffer.fields
         IN  IF ~(Len(fields) > 0) THEN Raise("MalformedComputeBuffer")
             ELSE IF fields[1].type \notin DOMAIN ssbo_types
                  THEN Raise("UnsupportedType")
             ELSE IF Cardinality(field_types_set(fields)) # 1
                  THEN Raise("MalformedComputeBuffer")
             ELSE comp_buff_render(fields, ssbo_types[fields[1].type],
                                   make_empty_buffer)

amberscript_comp_buff_def(comp, make_empty_buffer) ==
    IF ~HasKey(comp, COMPUTE_KEY) THEN Raise("MissingComputeKey")
    ELSE LET fields == Get(comp, COMPUTE_KEY).buffer.fields
         IN  IF ~(Len(fields) > 0) THEN Raise("MalformedComputeBuffer")
             ELSE IF Cardinality(field_types_set(fields)) # 1
                  THEN Raise("MalformedComputeBuffer")
             ELSE LET ssbo_type == fields[1].type
                  IN  IF ssbo_type \notin DOMAIN ssbo_types
                      THEN Raise("UnsupportedType")
                      ELSE comp_buff_render(fields, ssbo_types[ssbo_type],
                                            make_empty_buffer)

amberscript_comp_num_groups_def(json) ==
    LET num_groups == Get(json, COMPUTE_KEY).num_groups
    IN  Join([i \in DOMAIN num_groups |-> PyStr(num_groups[i])], " ")

-----------------------------------------------------------------------------
(* amberscript_uniform_buffer_bind, amberscript_uniform_buffer_def *)

RECURSIVE uniform_bind_loop(_, _, _)
uniform_bind_loop(uniforms, i, prefix) ==
    IF i > Len(uniforms) THEN ""
    ELSE IF uniforms[i].name = COMPUTE_KEY
         THEN uniform_bind_loop(uniforms, i + 1, prefix)
    ELSE "  BIND BUFFER " \o prefix \o "_" \o uniforms[i].name
         \o " AS uniform DESCRIPTOR_SET 0 BINDING "
         \o PyStr(uniforms[i].entry.binding) \o "\n"
         \o uniform_bind_loop(uniforms, i + 1, prefix)

\* amberscript_uniform_buffer_bind without the test for the reserved key: a
\* binding is emitted for $compute as well.
amberscript_uniform_buffer_bind_every_key(uniforms, prefix) ==
    Join([i \in DOMAIN uniforms |->
              "  BIND BUFFER " \o prefix \o "_" \o uniforms[i].name
              \o " AS uniform DESCRIPTOR_SET 0 BINDING "
              \o (IF uniforms[i].name = COMPUTE_KEY THEN "0"
                  ELSE PyStr(uniforms[i].entry.binding))
              \o "\n"], "")

amberscript_uniform_buffer_bind(uniforms, prefix) ==
    uniform_bind_loop(uniforms, 1, prefix)

uniform_types ==
    ("glUniform1i" :> "int32") @@ ("glUniform2i" :> "vec2<int32>")
    @@ ("glUniform3i" :> "vec3<int32>") @@ ("glUniform4i" :> "vec4<int32>")
    @@ ("glUniform1f" :> "float") @@ ("glUniform2f" :> "vec2<float>")
    @@ ("glUniform3f" :> "vec3<float>") @@ ("glUniform4f" :> "vec4<float>")
    @@ ("glUniformMatrix2fv" :> "mat2x2<float>")
    @@ ("glUniformMatrix2x3fv" :> "mat2x3<float>")
    @@ ("glUniformMatrix2x4fv" :> "mat2x4<float>")
    @@ ("glUniformMatrix3x2fv" :> "mat3x2<float>")
    @@ ("glUniformMatrix3fv" :> "mat3x3<float>")
    @@ ("glUniformMatrix3x4fv" :> "mat3x4<float>")
    @@ ("glUniformMatrix4x2fv" :> "mat4x2<float>")
    @@ ("glUniformMatrix4x3fv" :> "mat4x3<float>")
    @@ ("glUniformMatrix4fv" :> "mat4x4<float>")

\* for arg in entry["args"]: result += f" {arg}"
RECURSIVE uniform_args(_)
uniform_args(args) ==
    IF args = <<>> THEN "" ELSE " " \o PyStr(Head(args)) \o uniform_args(Tail(args))

\* uniform_def_entry naming the buffer by the key alone, without the job's prefix.
uniform_def_entry_unprefixed(name, entry, prefix) ==
    "# " \o name \o "\n"
    \o "BUFFER " \o name \o " DATA_TYPE "
    \o uniform_types[entry.func] \o " DATA\n"
    \o uniform_args(entry.args) \o "\n"
    \o "END\n"

\* One iteration of the loop at lines 274-289, for a key that is not skipped.
uniform_def_entry(name, entry, prefix) ==
    "# " \o name \o "\n"
    \o "BUFFER " \o prefix \o "_" \o name \o " DATA_TYPE "
    \o uniform_types[entry.func] \o " DATA\n"
    \o uniform_args(entry.args) \o "\n"
    \o "END\n"

\* The loop at lines 274-289, from key i on, with the text built so far.
RECURSIVE uniform_def_loop(_, _, _, _)
uniform_def_loop(uniforms, i, prefix, text) ==
    IF i > Len(uniforms) THEN Return(text)
    ELSE IF uniforms[i].name = COMPUTE_KEY
         THEN uniform_def_loop(uniforms, i + 1, prefix, text)
    ELSE IF uniforms[i].entry.func \notin DOMAIN uniform_types
         THEN Raise("UnsupportedType")
    ELSE uniform_def_loop(uniforms, i + 1, prefix,
             text \o uniform_def_entry(uniforms[i].name, uniforms[i].entry, prefix))

amberscript_uniform_buffer_def(uniforms, prefix) ==
    uniform_def_loop(uniforms, 1, prefix, "# uniforms for " \o prefix \o "\n" \o "\n")

-----------------------------------------------------------------------------
(* Script header *)

AMBER_FENCE_TIMEOUT_MS == 60000

\* Truthiness of Optional[List[str]]: None and [] are both false.
TruthyList(o) == o # None /\ o[1] # <<>>

get_spirv_opt_args_comment(spirv_opt_args, spirv_opt_hash) ==
    IF ~TruthyList(spirv_opt_args) THEN ""
    ELSE LET list == spirv_opt_args[1]
             args == [i \in DOMAIN list |-> "# '" \o list[i] \o "'"]
         IN  "# Optimized using spirv-opt with the following arguments:\n"
             \o Join(args, "\n")
             \o (IF Truthy(spirv_opt_hash)
                 THEN "\n# spirv-opt commit hash: " \o spirv_opt_hash[1]
                 ELSE "")
             \o "\n\n"

\* get_amber_script_header emitting the short description ahead of the two
\* provenance markers.
get_amber_script_header_description_first(amberfy_settings) ==
    Cat(<<Return("#!amber\n"),
          IF Truthy(amberfy_settings.copyright_header_text)
          THEN Cat(<<Return("\n"),
                     get_text_as_comment(amberfy_settings.copyright_header_text[1]),
                     Return("\n\n")>>)
          ELSE Return(""),
          Return(IF Truthy(amberfy_settings.short_description)
                 THEN "\n# Short description: "
                      \o amberfy_settings.short_description[1] \o "\n"
                 ELSE ""),
          Return(IF amberfy_settings.add_generated_comment
                 THEN "\n# Generated.\n\n" ELSE ""),
          Return(IF amberfy_settings.add_graphics_fuzz_comment
                 THEN "\n# A test for a bug found by GraphicsFuzz.\n" ELSE ""),
          IF Truthy(amberfy_settings.comment_text)
          THEN Cat(<<Return("\n"),
                     get_text_as_comment(amberfy_settings.comment_text[1]),
                     Return("\n")>>)
          ELSE Return(""),
          Return(IF TruthyList(amberfy_settings.spirv_opt_args)
                 THEN "\n"
                      \o get_spirv_opt_args_comment(amberfy_settings.spirv_opt_args,
                                                    amberfy_settings.spirv_opt_hash)
                      \o "\n"
                 ELSE ""),
          Return(IF ~amberfy_settings.use_default_fence_timeout
                 THEN "\nSET ENGINE_DATA fence_timeout_ms "
                      \o ToString(AMBER_FENCE_TIMEOUT_MS) \o "\n"
                 ELSE "")>>)

get_amber_script_header(amberfy_settings) ==
    Cat(<<Return("#!amber\n"),
          IF Truthy(amberfy_settings.copyright_header_text)
          THEN Cat(<<Return("\n"),
                     get_text_as_comment(amberfy_settings.copyright_header_text[1]),
                     Return("\n\n")>>)
          ELSE Return(""),
          Return(IF amberfy_settings.add_generated_comment
                 THEN "\n# Generated.\n\n" ELSE ""),
          Return(IF amberfy_settings.add_graphics_fuzz_comment
                 THEN "\n# A test for a bug found by GraphicsFuzz.\n" ELSE ""),
          Return(IF Truthy(amberfy_settings.short_description)
                 THEN "\n# Short description: "
                      \o amberfy_settings.short_description[1] \o "\n"
                 ELSE ""),
          IF Truthy(amberfy_settings.comment_text)
          THEN Cat(<<Return("\n"),
                     get_text_as_comment(amberfy_settings.comment_text[1]),
                     Return("\n")>>)
          ELSE Return(""),
          Return(IF TruthyList(amberfy_settings.spirv_opt_args)
                 THEN "\n"
                      \o get_spirv_opt_args_comment(amberfy_settings.spirv_opt_args,
                                                    amberfy_settings.spirv_opt_hash)
                      \o "\n"
                 ELSE ""),
          Return(IF ~amberfy_settings.use_default_fence_timeout
                 THEN "\nSET ENGINE_DATA fence_timeout_ms "
                      \o ToString(AMBER_FENCE_TIMEOUT_MS) \o "\n"
                 ELSE "")>>)

-----------------------------------------------------------------------------
(* Shader declarations *)

Shader(shader_type, shader_spirv_asm, shader_source, processing_info) ==
    [shader_type |-> shader_type, shader_spirv_asm |-> shader_spirv_asm,
     shader_source |-> shader_source, processing_info |-> processing_info]

get_amber_script_shader_def(shader, name) ==
    Cat(<<IF Truthy(shader.shader_source)
          THEN Cat(<<Return("\n# " \o name \o " is derived from the following GLSL:\n"),
                     get_text_as_comment(shader.shader_source[1])>>)
          ELSE Return(""),
          Return(IF Truthy(shader.shader_spirv_asm)
                 THEN "\nSHADER " \o shader.shader_type \o " " \o name
                      \o " SPIRV-ASM\n"
                      \o shader.shader_spirv_asm[1]
                      \o "END\n"
                 ELSE "\nSHADER " \o shader.shader_type \o " " \o name
                      \o " PASSTHROUGH\n")>>)

-----------------------------------------------------------------------------
(* Job loader: ShaderJobFile.to_shader_job *)

\* A ShaderJobFile together with what the file system holds for it:
\*   json          the parsed contents of asm_spirv_shader_job_json
\*   n_comp_files  how many compute-stage assembly files get_related_files finds
\*   *_asm         contents of the stage's assembly file, None when it does not exist
\*   glsl_*        contents of the stage's original source file, None when it does not exist
ShaderJobFile(name_prefix, json, n_comp_files, vert_asm, frag_asm, comp_asm, glsl_source_json, glsl_vert, glsl_frag, glsl_comp) ==
    [name_prefix |-> name_prefix, json |-> json, n_comp_files |-> n_comp_files,
     vert_asm |-> vert_asm, frag_asm |-> frag_asm, comp_asm |-> comp_asm,
     glsl_source_json |-> glsl_source_json, glsl_vert |-> glsl_vert,
     glsl_frag |-> glsl_frag, glsl_comp |-> glsl_comp,
     processing_info |-> ""]

NoFile == [name_prefix |-> "None"]
NoJob == [kind |-> "None"]

\* shader_job_util.get_shader_contents: the file's text, None for a file that does
\* not exist, or a failure when it must exist.
get_shader_contents(contents, must_exist) ==
    IF contents # None THEN Return(contents)
    ELSE IF must_exist THEN Raise("MissingRequiredStage")
    ELSE Return(None)

\* is_compute_job taking any number of compute-stage files for a compute job.
is_compute_job_any_count(n_comp_files) == Return(n_comp_files >= 1)

is_compute_job(n_comp_files) ==
    IF ~(n_comp_files <= 1) THEN Raise("AmbiguousJob")
    ELSE Return(n_comp_files = 1)

GraphicsShaderJob(name_prefix, uniform_definitions, uniform_bindings, vertex_shader, fragment_shader) ==
    [kind |-> "GraphicsShaderJob", name_prefix |-> name_prefix,
     uniform_definitions |-> uniform_definitions,
     uniform_bindings |-> uniform_bindings,
     vertex_shader |-> vertex_shader, fragment_shader |-> fragment_shader]

ComputeShaderJob(name_prefix, uniform_definitions, uniform_bindings, compute_shader, initial_buffer_definition_template, empty_buffer_definition_template, num_groups_def) ==
    [kind |-> "ComputeShaderJob", name_prefix |-> name_prefix,
     uniform_definitions |-> uniform_definitions,
     uniform_bindings |-> uniform_bindings,
     compute_shader |-> compute_shader,
     initial_buffer_definition_template |-> initial_buffer_definition_template,
     empty_buffer_definition_template |-> empty_buffer_definition_template,
     num_groups_def |-> num_groups_def]

\* Lines 370-398: the compute branch.
to_compute_shader_job(self) ==
    LET glsl_comp_contents ==
            IF self.glsl_source_json
            THEN get_shader_contents(self.glsl_comp, FALSE).val
            ELSE None
        comp_asm_contents == get_shader_contents(self.comp_asm, TRUE)
        defs == amberscript_uniform_buffer_def(self.json, self.name_prefix)
        initial == amberscript_comp_buff_def(self.json, FALSE)
        empty == amberscript_comp_buff_def(self.json, TRUE)
    IN  IF ~comp_asm_contents.ok THEN comp_asm_contents
        ELSE IF ~Truthy(comp_asm_contents.val) THEN Raise("MissingRequiredStage")
        ELSE IF ~defs.ok THEN defs
        ELSE IF ~initial.ok THEN initial
        ELSE IF ~empty.ok THEN empty
        ELSE Return(ComputeShaderJob(
                 self.name_prefix,
                 defs.val,
                 amberscript_uniform_buffer_bind(self.json, self.name_prefix),
                 Shader("compute", comp_asm_contents.val, glsl_comp_contents,
                        self.processing_info),
                 initial.val,
                 empty.val,
                 amberscript_comp_num_groups_def(self.json)))

\* Lines 400-441: the graphics branch.
to_graphics_shader_job(self) ==
    LET glsl_vert_contents ==
            IF self.glsl_source_json
            THEN get_shader_contents(self.glsl_vert, FALSE).val
            ELSE None
        glsl_frag_contents ==
            IF self.glsl_source_json
            THEN get_shader_contents(self.glsl_frag, FALSE).val
            ELSE None
        vert_contents == get_shader_contents(self.vert_asm, FALSE)
        frag_contents == get_shader_contents(self.frag_asm, TRUE)
        defs == amberscript_uniform_buffer_def(self.json, self.name_prefix)
    IN  IF ~frag_contents.ok THEN frag_contents
        ELSE IF ~defs.ok THEN defs
        ELSE Return(GraphicsShaderJob(
                 self.name_prefix,
                 defs.val,
                 amberscript_uniform_buffer_bind(self.json, self.name_prefix),
                 Shader("vertex", vert_contents.val, glsl_vert_contents,
                        self.processing_info),
                 Shader("fragment", frag_contents.val, glsl_frag_contents,
                        self.processing_info)))

to_shader_job(self) ==
    LET compute == is_compute_job(self.n_comp_files)
    IN  IF ~compute.ok THEN compute
        ELSE IF compute.val THEN to_compute_shader_job(self)
        ELSE to_graphics_shader_job(self)

-----------------------------------------------------------------------------
(* Pipeline assemblers *)

\* The body of the loop over jobs, lines 528-561.
graphics_job_block(job) ==
    LET prefix == job.name_prefix
        vertex_shader_name == prefix \o "_vertex_shader"
        fragment_shader_name == prefix \o "_fragment_shader"
    IN  Cat(<<get_amber_script_shader_def(job.vertex_shader, vertex_shader_name),
              get_amber_script_shader_def(job.fragment_shader, fragment_shader_name),
              Return("\n"
                     \o job.uniform_definitions
                     \o "\nBUFFER " \o prefix \o "_framebuffer FORMAT B8G8R8A8_UNORM\n"
                     \o "\nPIPELINE graphics " \o prefix \o "_pipeline\n"
                     \o "  ATTACH " \o vertex_shader_name \o "\n"
                     \o "  ATTACH " \o fragment_shader_name \o "\n"
                     \o "  FRAMEBUFFER_SIZE 256 256\n"
                     \o "  BIND BUFFER " \o prefix \o "_framebuffer AS color LOCATION 0\n"
                     \o job.uniform_bindings
                     \o "END\n"
                     \o "CLEAR_COLOR " \o prefix \o "_pipeline 0 0 0 255\n"
                     \o "\nCLEAR " \o prefix \o "_pipeline\n"
                     \o "RUN " \o prefix \o "_pipeline DRAW_RECT POS 0 0 SIZE 256 256\n"
                     \o "\n")>>)

\* graphics_jobs putting the reference after the variant.
graphics_jobs_variant_first(test) ==
    IF test.reference = NoJob THEN Return(<<test.variant>>)
    ELSE IF test.reference.kind # "GraphicsShaderJob" THEN Raise("InconsistentTestPair")
    ELSE Return(<<test.variant, test.reference>>)

\* Lines 521-525: jobs = [variant]; if there is a reference, it must be a
\* GraphicsShaderJob (line 524) and is inserted at the front.
graphics_jobs(test) ==
    IF test.reference = NoJob THEN Return(<<test.variant>>)
    ELSE IF test.reference.kind # "GraphicsShaderJob" THEN Raise("InconsistentTestPair")
    ELSE Return(<<test.reference, test.variant>>)

\* expect_directive with the two framebuffers the other way round.
expect_directive_reversed(jobs, pipeline_index) ==
    LET prefix_0 == jobs[1].name_prefix
        prefix_1 == jobs[pipeline_index].name_prefix
    IN  "EXPECT " \o prefix_1 \o "_framebuffer RMSE_BUFFER " \o prefix_0
        \o "_framebuffer TOLERANCE 7"

\* One iteration of the loop at lines 565-568.
expect_directive(jobs, pipeline_index) ==
    LET prefix_0 == jobs[1].name_prefix
        prefix_1 == jobs[pipeline_index].name_prefix
    IN  "EXPECT " \o prefix_0 \o "_framebuffer RMSE_BUFFER " \o prefix_1
        \o "_framebuffer TOLERANCE 7"

\* for pipeline_index in range(1, len(jobs)), with 1-based positions 2..Len(jobs).
RECURSIVE expect_loop(_, _)
expect_loop(jobs, pipeline_index) ==
    IF pipeline_index > Len(jobs) THEN ""
    ELSE expect_directive(jobs, pipeline_index) \o expect_loop(jobs, pipeline_index + 1)

\* for job in jobs: the blocks of the jobs in turn.
graphics_job_loop(jobs) ==
    Cat([i \in DOMAIN jobs |-> graphics_job_block(jobs[i])])

\* What lines 527-573 append to the header for a list of jobs.
graphics_script_after_header(jobs, amberfy_settings) ==
    Cat(<<graphics_job_loop(jobs),
          Return(expect_loop(jobs, 2)),
          Return(IF Truthy(amberfy_settings.extra_commands)
                 THEN amberfy_settings.extra_commands[1] ELSE "")>>)

\* The graphics assembler leaving a reference of another kind out of the script
\* instead of failing.
graphics_shader_job_amber_test_to_amber_script_skipping(test, amberfy_settings) ==
    LET header == get_amber_script_header(amberfy_settings)
        jobs == IF test.reference # NoJob /\ test.reference.kind = "GraphicsShaderJob"
                THEN graphics_jobs(test).val ELSE <<test.variant>>
    IN  IF test.variant.kind # "GraphicsShaderJob" THEN Raise("AssertionError")
        ELSE Cat(<<header, graphics_script_after_header(jobs, amberfy_settings)>>)

\* Line 517 asserts the variant's kind, line 519 builds the header, lines 521-525
\* the list of jobs (asserting the reference's kind), lines 527-573 the rest.
graphics_shader_job_amber_test_to_amber_script(test, amberfy_settings) ==
    LET header == get_amber_script_header(amberfy_settings)
        jobs == graphics_jobs(test)
    IN  IF test.variant.kind # "GraphicsShaderJob" THEN Raise("AssertionError")
        ELSE IF ~header.ok THEN header
        ELSE IF ~jobs.ok THEN jobs
        ELSE Cat(<<header, graphics_script_after_header(jobs.val, amberfy_settings)>>)

\* What lines 586-626 append to the header for the variant of the pair.
compute_script_after_header(job, amberfy_settings) ==
    LET variant_compute_shader_name == job.name_prefix \o "_compute_shader"
        variant_ssbo_name == job.name_prefix \o "_ssbo"
    IN  Cat(<<get_amber_script_shader_def(job.compute_shader,
                                          variant_compute_shader_name),
              Return("\n"
                     \o job.uniform_definitions
                     \o "\n"
                     \o Format(job.initial_buffer_definition_template,
                               variant_ssbo_name)
                     \o "\nPIPELINE compute gfz_pipeline\n"
                     \o "  ATTACH " \o variant_compute_shader_name \o "\n"
                     \o "  BIND BUFFER " \o variant_ssbo_name
                     \o " AS storage DESCRIPTOR_SET 0 BINDING 0\n"
                     \o job.uniform_bindings
                     \o "END\n"
                     \o "\nRUN gfz_pipeline " \o job.num_groups_def \o "\n"),
              Return(IF Truthy(amberfy_settings.extra_commands)
                     THEN amberfy_settings.extra_commands[1] ELSE "")>>)

\* The compute assembler taking the reference into account: the reference's prefix
\* names the SSBO and the shader when the pair has a reference.
compute_shader_job_amber_test_to_amber_script_comparing(test, amberfy_settings) ==
    LET job == IF test.reference # NoJob
               THEN [test.variant EXCEPT !.name_prefix = test.reference.name_prefix]
               ELSE test.variant
    IN  IF test.variant.kind # "ComputeShaderJob" THEN Raise("AssertionError")
        ELSE Cat(<<get_amber_script_header(amberfy_settings),
                   compute_script_after_header(job, amberfy_settings)>>)

\* Line 582 asserts the variant's kind, line 584 builds the header; the reference
\* of the pair is not read.
compute_shader_job_amber_test_to_amber_script(test, amberfy_settings) ==
    IF test.variant.kind # "ComputeShaderJob" THEN Raise("AssertionError")
    ELSE Cat(<<get_amber_script_header(amberfy_settings),
               compute_script_after_header(test.variant, amberfy_settings)>>)

-----------------------------------------------------------------------------
(* Inputs *)

MaxFields == 2      \* SSBO fields per compute-metadata block
MaxData == 2        \* data values per SSBO field
MaxKeys == 2        \* uniform entries per JSON object
MaxOptArgs == 2     \* spirv-opt arguments
MaxCompFiles == 2   \* compute-stage assembly files found for one job

VertAsm == "; vertex\nOpNop\n"
FragAsm == "; fragment\nOpKill\n"
CompAsm == "; compute\nOpReturn\n"
GlslVert == "\nvoid main() { }\n"
GlslFrag == "precision highp float; " \o US \o "\n\nvoid main() { }" \o VT \o "\n\n"
GlslComp == "layout(local_size_x=1) in;\nvoid main() { }\n"

Uniform(name, func, args, binding) ==
    [name |-> name, entry |-> [func |-> func, args |-> args, binding |-> binding]]

Compute(num_groups, binding, fields) ==
    [name |-> COMPUTE_KEY,
     entry |-> [num_groups |-> num_groups,
                buffer |-> [binding |-> binding, fields |-> fields]]]

Field(type, data) == [type |-> type, data |-> data]

SeqsUpTo(S, n) == UNION {[1..k -> S] : k \in 0..n}

\* SSBO field lists: two supported types and one the table lacks; a field's data
\* is a run of consecutive integers, so that every datum of a list tells its place.
FieldTypeNames == {"int", "vec2", "bool"}
DataLists == {[i \in 1..n |-> base + i] : n \in 0..MaxData, base \in {0, 6}}
Fields == {Field(t, d) : t \in FieldTypeNames, d \in DataLists}
FieldLists == SeqsUpTo(Fields, MaxFields)

ResUniform == Uniform("res", "glUniform2i", <<256, 256>>, 2)

CompJsons ==
    {<<Compute(<<8, 1, 1>>, 0, f)>> : f \in FieldLists}
    \cup {<<ResUniform, Compute(<<8, 1, 1>>, 0, f)>> : f \in SeqsUpTo(Fields, 1)}
    \cup {<<>>, <<ResUniform>>}

\* Uniform maps: up to MaxKeys uniform entries under distinct names, in any key
\* order, with or without a $compute entry at any place among them.  One setter
\* is missing from the table.  A $compute entry may carry stray "func"/"args"
\* members, which a JSON object is free to hold.
UniformNames == {"res", "mvp", "a"}
UniformFuncs == {"glUniform1f", "glUniformMatrix2x3fv", "glBogus"}
UniformArgs == {<<1>>, <<2, 3>>}
UniformEntries ==
    [func : UniformFuncs, args : UniformArgs, binding : {3}]
    \cup {[func |-> "glUniform2i", args |-> <<>>, binding |-> 0]}

ComputeEntries ==
    {Compute(<<8, 1, 1>>, 0, <<Field("int", <<0>>)>>).entry,
     [num_groups |-> <<1, 1, 1>>,
      buffer |-> [binding |-> 0, fields |-> <<Field("int", <<0>>)>>],
      func |-> "glUniform1f", args |-> <<9>>, binding |-> 9]}

Injective(seq) == \A i, j \in DOMAIN seq : seq[i] = seq[j] => i = j

UniformKeyOrders == {ks \in SeqsUpTo(UniformNames, MaxKeys) : Injective(ks)}

UniformMaps ==
    UNION {{[i \in DOMAIN ks |-> [name |-> ks[i], entry |-> es[i]]] :
                es \in [DOMAIN ks -> UniformEntries]} : ks \in UniformKeyOrders}

\* seq with x put in at position i.
InsertAt(seq, i, x) == SubSeq(seq, 1, i - 1) \o <<x>> \o SubSeq(seq, i, Len(seq))

UniformJsons ==
    UniformMaps
    \cup UNION {{InsertAt(m, i, [name |-> COMPUTE_KEY, entry |-> c]) :
                    i \in 1..(Len(m) + 1), c \in ComputeEntries} : m \in UniformMaps}

NamePrefixes == {"reference", "variant"}


\* Header configurations.  The texts hold blank lines at both ends and white space
\* of several kinds at line ends, which get_text_as_comment strips.
CopyrightText == "\nCopyright 2019 The Authors " \o NBSP \o "\n\nLicensed." \o FS \o "\n\n"
CommentText == "A comment" \o VT \o "\n  on two lines.\t" \o NEL \o "\n"

\* A text without any non-empty line, for which get_text_as_comment fails.
BlankText == "\n"
OptArgNames == <<"-O", "--eliminate-dead-code", "--merge-blocks", "--inline">>
OptArgLists == {[i \in 1..n |-> OptArgNames[i]] : n \in 0..MaxOptArgs}

HeaderSettings ==
    [copyright_header_text : {None, Some(""), Some(CopyrightText), Some(BlankText)},
     add_generated_comment : BOOLEAN,
     add_graphics_fuzz_comment : BOOLEAN,
     short_description : {None, Some("a short description")},
     comment_text : {None, Some(CommentText), Some(BlankText)},
     use_default_fence_timeout : BOOLEAN,
     extra_commands : {None},
     spirv_opt_args : {None} \cup {Some(l) : l \in OptArgLists},
     spirv_opt_hash : {None, Some("ab12cd")}]


\* Test pairs.  A job's JSON is one of five documents: a supported uniform, an
\* unsupported one, and three with compute metadata ($compute between two
\* uniforms; fields of mixed types; one field without data).
BogusUniform == Uniform("time", "glBogus", <<1>>, 1)
JobJson == <<ResUniform>>
JobJsonBogus == <<BogusUniform>>
JobJsonCompute ==
    <<Uniform("time", "glUniform1f", <<0>>, 1),
      Compute(<<8, 1, 1>>, 0, <<Field("int", <<0, 0>>)>>), ResUniform>>
JobJsonMixed ==
    <<Compute(<<8, 1, 1>>, 0, <<Field("int", <<1>>), Field("vec2", <<2>>)>>)>>
JobJsonNoData == <<Compute(<<1, 1, 1>>, 0, <<Field("int", <<>>)>>)>>

\* Graphics jobs: no compute-stage file.
GraphicsFiles(prefix, Verts, Frags, Sources, Jsons) ==
    {ShaderJobFile(prefix, j, 0, v, f, None, src,
                   IF src THEN Some(GlslVert) ELSE None,
                   IF src THEN Some(GlslFrag) ELSE None, None) :
        v \in Verts, f \in Frags, src \in Sources, j \in Jsons}

\* Compute jobs: n >= 1 compute-stage files, the one to_shader_job reads holding c.
ComputeFiles(prefix, Counts, Comps, Sources, Jsons) ==
    {ShaderJobFile(prefix, j, n, None, None, c, src, None, None,
                   IF src THEN Some(GlslComp) ELSE None) :
        n \in Counts, c \in Comps, src \in Sources, j \in Jsons}

VariantFiles ==
    GraphicsFiles("variant", {None, Some(VertAsm)}, {None, Some(""), Some(FragAsm)},
                  BOOLEAN, {JobJson, JobJsonBogus, JobJsonCompute})
    \cup ComputeFiles("variant", {1}, {Some(""), Some(CompAsm)}, {TRUE},
                      {JobJson, JobJsonBogus, JobJsonCompute, JobJsonMixed,
                       JobJsonNoData})
    \cup ComputeFiles("variant", 2..MaxCompFiles, {Some(CompAsm)}, {FALSE},
                      {JobJsonCompute})
    \cup {ShaderJobFile("variant", JobJson, 0, Some(VertAsm), Some(FragAsm), None,
                        TRUE, Some(BlankText), Some(GlslFrag), None)}

ReferenceFiles ==
    GraphicsFiles("reference", {Some(VertAsm)}, {None, Some(FragAsm)}, {FALSE},
                  {JobJson, JobJsonBogus})
    \cup ComputeFiles("reference", {1}, {Some(CompAsm)}, {FALSE},
                      {JobJsonCompute, JobJsonMixed})
    \cup ComputeFiles("reference", 2..MaxCompFiles, {Some(CompAsm)}, {FALSE},
                      {JobJsonCompute})

ExtraCommands == "EXPECT variant_framebuffer IDX 0 0 SIZE 1 1 EQ_RGBA 255 0 0 255\n"

TestSettings ==
    [copyright_header_text : {None},
     add_generated_comment : {FALSE},
     add_graphics_fuzz_comment : {TRUE},
     short_description : {None},
     comment_text : {None, Some(BlankText)},
     use_default_fence_timeout : BOOLEAN,
     extra_commands : {None, Some(ExtraCommands)},
     spirv_opt_args : {None},
     spirv_opt_hash : {None}]

OutputPath == "out.amber"


-----------------------------------------------------------------------------
(* Calls of the pure functions: the arguments are drawn in Init, one action
   applies the function. *)

Pending == [pending |-> TRUE]

Idle ==
    /\ reference = NoJob
    /\ variant = NoJob
    /\ assembler = "none"
    /\ result = None
    /\ out_file = None
    /\ writes = 0

InitBuff ==
    /\ pc = "call"
    /\ call \in [fn : {"amberscript_comp_buff_def"}, comp_json : CompJsons,
                 make_empty_buffer : BOOLEAN]
    /\ ret = Pending
    /\ Idle

CallCompBuffDef ==
    /\ pc = "call"
    /\ call.fn = "amberscript_comp_buff_def"
    /\ ret' = amberscript_comp_buff_def(call.comp_json, call.make_empty_buffer)
    /\ pc' = "returned"
    /\ UNCHANGED <<call, reference, variant, assembler, result, out_file, writes>>

NextBuff == CallCompBuffDef

SpecBuff == InitBuff /\ [][NextBuff]_vars

InitUniform ==
    /\ pc = "call"
    /\ call \in [fn : {"amberscript_uniform_buffer_def"},
                 uniform_json_contents : UniformJsons, prefix : NamePrefixes]
    /\ ret = Pending
    /\ Idle

CallUniformBufferDef ==
    /\ pc = "call"
    /\ call.fn = "amberscript_uniform_buffer_def"
    /\ ret' = amberscript_uniform_buffer_def(call.uniform_json_contents, call.prefix)
    /\ pc' = "returned"
    /\ UNCHANGED <<call, reference, variant, assembler, result, out_file, writes>>

NextUniform == CallUniformBufferDef

SpecUniform == InitUniform /\ [][NextUniform]_vars

InitHeader ==
    /\ pc = "call"
    /\ call \in [fn : {"get_amber_script_header"}, amberfy_settings : HeaderSettings]
    /\ ret = Pending
    /\ Idle

CallGetAmberScriptHeader ==
    /\ pc = "call"
    /\ call.fn = "get_amber_script_header"
    /\ ret' = get_amber_script_header(call.amberfy_settings)
    /\ pc' = "returned"
    /\ UNCHANGED <<call, reference, variant, assembler, result, out_file, writes>>

NextHeader == CallGetAmberScriptHeader

SpecHeader == InitHeader /\ [][NextHeader]_vars

-----------------------------------------------------------------------------
(* Orchestrator: spirv_asm_shader_job_to_amber_script *)

Init ==
    /\ pc = "load_reference"
    /\ call \in [fn : {"spirv_asm_shader_job_to_amber_script"},
                 reference_asm_spirv_job : {NoFile} \cup ReferenceFiles,
                 variant_asm_spirv_job : VariantFiles,
                 output_amber_script_file_path : {OutputPath},
                 amberfy_settings : TestSettings]
    /\ ret = Pending
    /\ Idle

\* to_shader_job_based, first argument: the reference job, if the pair has one.
LoadReference ==
    /\ pc = "load_reference"
    /\ LET job == IF call.reference_asm_spirv_job # NoFile
                  THEN to_shader_job(call.reference_asm_spirv_job)
                  ELSE Return(NoJob)
       IN  IF job.ok
           THEN /\ reference' = job.val
                /\ pc' = "load_variant"
                /\ ret' = ret
           ELSE /\ reference' = reference
                /\ pc' = "failed"
                /\ ret' = job
    /\ UNCHANGED <<call, variant, assembler, result, out_file, writes>>

\* to_shader_job_based, second argument: the variant job.
LoadVariant ==
    /\ pc = "load_variant"
    /\ LET job == to_shader_job(call.variant_asm_spirv_job)
       IN  IF job.ok
           THEN /\ variant' = job.val
                /\ pc' = "dispatch"
                /\ ret' = ret
           ELSE /\ variant' = variant
                /\ pc' = "failed"
                /\ ret' = job
    /\ UNCHANGED <<call, reference, assembler, result, out_file, writes>>

\* Which assembler lines 647-659 invoke for a variant, "none" for neither.
dispatch(job) ==
    IF job.kind = "GraphicsShaderJob" THEN "graphics"
    ELSE IF job.kind = "ComputeShaderJob" THEN "compute"
    ELSE "none"

\* Lines 647-659: the script of the assembler the variant's type selects.
Dispatch ==
    /\ pc = "dispatch"
    /\ LET test == [reference |-> reference, variant |-> variant]
           which == dispatch(variant)
           script ==
               IF which = "graphics"
               THEN graphics_shader_job_amber_test_to_amber_script(
                        test, call.amberfy_settings)
               ELSE IF which = "compute"
               THEN compute_shader_job_amber_test_to_amber_script(
                        test, call.amberfy_settings)
               ELSE Raise("UnknownJobKind")
       IN  /\ assembler' = which
           /\ IF script.ok
              THEN /\ result' = Some(script.val)
                   /\ pc' = "write"
                   /\ ret' = ret
              ELSE /\ result' = result
                   /\ pc' = "failed"
                   /\ ret' = script
    /\ UNCHANGED <<call, reference, variant, out_file, writes>>

\* Write reached from a failure as well: the destination is written whatever the
\* conversion came to.
Write_after_failure ==
    /\ pc \in {"write", "failed"}
    /\ out_file' = IF result = None THEN Some("") ELSE result
    /\ writes' = writes + 1
    /\ ret' = Return(call.output_amber_script_file_path)
    /\ pc' = "done"
    /\ UNCHANGED <<call, reference, variant, assembler, result>>

\* Lines 661-662: util.file_write_text, then the path is returned.
Write ==
    /\ pc = "write"
    /\ out_file' = result
    /\ writes' = writes + 1
    /\ ret' = Return(call.output_amber_script_file_path)
    /\ pc' = "done"
    /\ UNCHANGED <<call, reference, variant, assembler, result>>

Next == LoadReference \/ LoadVariant \/ Dispatch \/ Write

Spec == Init /\ [][Next]_vars


-----------------------------------------------------------------------------
(* Reading a script back *)

\* s.split(sep) without the empty pieces: the words of a line for sep = " ".
RECURSIVE Pieces(_, _)
Pieces(s, sep) ==
    LET j == IndexOf(s, sep)
        head == IF j = 0 THEN s ELSE SubSeq(s, 1, j - 1)
        rest == IF j = 0 THEN <<>>
                ELSE Pieces(SubSeq(s, j + Len(sep), Len(s)), sep)
    IN  IF head = "" THEN rest ELSE <<head>> \o rest

Words(line) == Pieces(line, " ")

\* The lines of a text, without the empty ones.
TextLines(text) == Pieces(text, "\n")

-----------------------------------------------------------------------------
(* C4, C5: the compute buffer emitter *)

BuffReturned == pc = "returned" /\ call.fn = "amberscript_comp_buff_def"

BuffFields == Get(call.comp_json, COMPUTE_KEY).buffer.fields

BuffTypes == {BuffFields[i].type : i \in DOMAIN BuffFields}

SupportedSsboTypes ==
    {"int", "ivec2", "ivec3", "ivec4", "uint", "float", "vec2", "vec3", "vec4"}

\* C4: with a compute-metadata block, an empty field list and a field list
\* of two or more distinct types both fail with MalformedComputeBuffer, whatever
\* make_empty_buffer is and whether or not a type is supported; UnsupportedType is
\* raised exactly for a non-empty list of one type that the table lacks.
C4_MalformedBeforeUnsupported ==
    (BuffReturned /\ HasKey(call.comp_json, COMPUTE_KEY)) =>
        /\ BuffFields = <<>> => ret = Raise("MalformedComputeBuffer")
        /\ Cardinality(BuffTypes) >= 2 => ret = Raise("MalformedComputeBuffer")
        /\ ret = Raise("UnsupportedType") <=>
               /\ BuffFields # <<>>
               /\ Cardinality(BuffTypes) = 1
               /\ BuffTypes \cap SupportedSsboTypes = {}

\* A mixed-type list whose first type is unsupported was rejected as malformed,
\* asking for the empty buffer.
C4_Witness ==
    /\ BuffReturned
    /\ HasKey(call.comp_json, COMPUTE_KEY)
    /\ call.make_empty_buffer
    /\ Len(BuffFields) = 2
    /\ BuffFields[1].type = "bool"
    /\ BuffFields[2].type = "int"
    /\ ret = Raise("MalformedComputeBuffer")

BuffValid ==
    /\ HasKey(call.comp_json, COMPUTE_KEY)
    /\ BuffFields # <<>>
    /\ Cardinality(BuffTypes) = 1
    /\ BuffTypes \subseteq SupportedSsboTypes

BuffData == Flatten([i \in DOMAIN BuffFields |-> BuffFields[i].data])

\* The declaration make_empty_buffer=False gives for the same JSON, read back:
\* its type token and the values it lists.
BuffLiteral == TextLines(amberscript_comp_buff_def(call.comp_json, FALSE).val)
BuffLiteralToken == Words(BuffLiteral[1])[4]
BuffLiteralValues == IF Len(BuffLiteral) = 3 THEN Words(BuffLiteral[2]) ELSE <<>>

\* What C5 says of an empty-buffer declaration: one line
\* BUFFER {} DATA_TYPE <token> SIZE <n> <fill>, the token that of the literal
\* declaration, n the number of values it lists, fill the first of them.
BuffEmptyAsClaimed ==
    /\ ret.ok
    /\ LET lines == TextLines(ret.val)
           w == Words(lines[1])
       IN  /\ Len(lines) = 1
           /\ Len(w) = 7
           /\ SubSeq(w, 1, 3) = <<"BUFFER", "{}", "DATA_TYPE">>
           /\ w[4] = BuffLiteralToken
           /\ w[5] = "SIZE"
           /\ w[6] = ToString(Len(BuffLiteralValues))
           /\ w[6] = ToString(Len(BuffData))
           /\ w[7] = BuffLiteralValues[1]
           /\ w[7] = ToString(BuffData[1])

\* C5 as stated: every valid block gets an empty-buffer declaration.
C5_Original ==
    (BuffReturned /\ BuffValid /\ call.make_empty_buffer) => BuffEmptyAsClaimed

\* C5, amended: a valid block holding at least one data value gets the
\* empty-buffer declaration of the claim; a valid block whose fields hold no data
\* at all gets none (IndexError), while its literal declaration lists no value.
C5_EmptyBufferShape ==
    (BuffReturned /\ BuffValid /\ call.make_empty_buffer) =>
        IF BuffData # <<>> THEN BuffEmptyAsClaimed
        ELSE ret = Raise("IndexError") /\ BuffLiteralValues = <<>>

\* The fill value came from the second field, the first one holding no data.
C5_Witness ==
    /\ BuffReturned
    /\ BuffValid
    /\ call.make_empty_buffer
    /\ Len(BuffFields) = 2
    /\ BuffFields[1].data = <<>>
    /\ BuffFields[2].data = <<7, 8>>
    /\ ret = Return("BUFFER {} DATA_TYPE vec2<float> SIZE 2 7\n")

-----------------------------------------------------------------------------
(* C6: the uniform emitter *)

UniformReturned == pc = "returned" /\ call.fn = "amberscript_uniform_buffer_def"

\* The JSON's entries other than $compute, in the JSON's key order.
NotReserved(pair) == pair.name # COMPUTE_KEY
UniformKeys == SelectSeq(call.uniform_json_contents, NotReserved)

\* The tokens the fixed table gives the setters of the inputs.
UniformTokens ==
    ("glUniform1f" :> "float") @@ ("glUniform2i" :> "vec2<int32>")
    @@ ("glUniformMatrix2x3fv" :> "mat2x3<float>")

\* The positions of the BUFFER lines of a text, in order.
IsBufferLine(line) == StartsWithAt(line, 1, "BUFFER ")
RECURSIVE BufferLinesFrom(_, _)
BufferLinesFrom(lines, i) ==
    IF i > Len(lines) THEN <<>>
    ELSE (IF IsBufferLine(lines[i]) THEN <<i>> ELSE <<>>)
         \o BufferLinesFrom(lines, i + 1)

\* C6: when every entry other than $compute has a setter of the table, the
\* text declares exactly one buffer per such entry, in the JSON's key order, named
\* <prefix>_<key>, typed by the table and listing the entry's args in order, and
\* declares nothing for $compute; when some such entry has a setter the table lacks,
\* the call raises UnsupportedType.
C6_OneDeclarationPerUniform ==
    UniformReturned =>
        IF \A i \in DOMAIN UniformKeys : UniformKeys[i].entry.func \in DOMAIN UniformTokens
        THEN /\ ret.ok
             /\ LET lines == Split(ret.val)
                    at == BufferLinesFrom(lines, 1)
                IN  /\ Len(at) = Len(UniformKeys)
                    /\ ~Contains(ret.val, COMPUTE_KEY)
                    /\ \A k \in DOMAIN at :
                           LET e == UniformKeys[k].entry
                           IN  /\ Words(lines[at[k]]) =
                                      <<"BUFFER", call.prefix \o "_" \o UniformKeys[k].name,
                                        "DATA_TYPE", UniformTokens[e.func], "DATA">>
                               /\ Words(lines[at[k] + 1]) =
                                      [a \in DOMAIN e.args |-> ToString(e.args[a])]
                               /\ lines[at[k] + 2] = "END"
        ELSE ret = Raise("UnsupportedType")

\* Two uniforms around a $compute entry that carries a setter name of its own were
\* declared in the JSON's order, which is not the sorted one.
C6_Witness ==
    /\ UniformReturned
    /\ Len(call.uniform_json_contents) = 3
    /\ call.uniform_json_contents[1].name = "res"
    /\ call.uniform_json_contents[2].name = COMPUTE_KEY
    /\ "func" \in DOMAIN call.uniform_json_contents[2].entry
    /\ call.uniform_json_contents[3].name = "a"
    /\ ret.ok
    /\ Len(BufferLinesFrom(Split(ret.val), 1)) = 2

-----------------------------------------------------------------------------
(* C7: the script header *)

HeaderReturned == pc = "returned" /\ call.fn = "get_amber_script_header"

\* The comment blocks the two texts of the inputs are to give.
CopyrightComment == "# Copyright 2019 The Authors\n#\n# Licensed."
CommentComment == "# A comment\n#   on two lines."

\* The sections of a header in their fixed order, each "" when its own configuration
\* field leaves it out: format marker, copyright block, generated marker,
\* fuzzer-provenance marker, short description, free-text comment,
\* optimizer-provenance block, fence-timeout directive.
HeaderSections(s) ==
    << "#!amber\n",
       IF s.copyright_header_text \in {None, Some("")} THEN ""
       ELSE "\n" \o CopyrightComment \o "\n\n",
       IF s.add_generated_comment THEN "\n# Generated.\n\n" ELSE "",
       IF s.add_graphics_fuzz_comment
       THEN "\n# A test for a bug found by GraphicsFuzz.\n" ELSE "",
       IF s.short_description = None THEN ""
       ELSE "\n# Short description: " \o s.short_description[1] \o "\n",
       IF s.comment_text = None THEN "" ELSE "\n" \o CommentComment \o "\n",
       IF s.spirv_opt_args \in {None, Some(<<>>)} THEN ""
       ELSE "\n# Optimized using spirv-opt with the following arguments:\n"
            \o Join([i \in DOMAIN s.spirv_opt_args[1] |->
                        "# '" \o s.spirv_opt_args[1][i] \o "'"], "\n")
            \o (IF s.spirv_opt_hash = None THEN ""
                ELSE "\n# spirv-opt commit hash: " \o s.spirv_opt_hash[1])
            \o "\n\n\n",
       IF s.use_default_fence_timeout THEN ""
       ELSE "\nSET ENGINE_DATA fence_timeout_ms 60000\n" >>

\* The configuration with section k switched off.
HeaderWithout(s, k) ==
    CASE k = 2 -> [s EXCEPT !.copyright_header_text = None]
      [] k = 3 -> [s EXCEPT !.add_generated_comment = FALSE]
      [] k = 4 -> [s EXCEPT !.add_graphics_fuzz_comment = FALSE]
      [] k = 5 -> [s EXCEPT !.short_description = None]
      [] k = 6 -> [s EXCEPT !.comment_text = None]
      [] k = 7 -> [s EXCEPT !.spirv_opt_args = None]
      [] k = 8 -> [s EXCEPT !.use_default_fence_timeout = TRUE]

\* The copyright text or the comment text has no non-empty line.
HasBlankText(s) == Some(BlankText) \in {s.copyright_header_text, s.comment_text}

\* C7: a header that is returned is the concatenation, in the fixed order, of
\* the sections its configuration enables (the optimizer block only for a non-empty
\* argument list, the fence-timeout directive iff use_default_fence_timeout is
\* false), and switching one section off removes that section's text and nothing
\* else.  No header is returned, but IndexError raised, exactly for a copyright or
\* comment text without a non-empty line.
C7_HeaderOrderStable ==
    HeaderReturned =>
        LET s == call.amberfy_settings
            sections == HeaderSections(s)
        IN  IF HasBlankText(s) THEN ret = Raise("IndexError")
            ELSE /\ ret = Return(Join(sections, ""))
                 /\ \A k \in 2..8 :
                        get_amber_script_header(HeaderWithout(s, k)) =
                            Return(Join([i \in DOMAIN sections |->
                                            IF i = k THEN "" ELSE sections[i]], ""))

\* A header with every section, the optimizer block carrying two arguments and
\* the build hash.
C7_Witness ==
    /\ HeaderReturned
    /\ Truthy(call.amberfy_settings.copyright_header_text)
    /\ call.amberfy_settings.add_generated_comment
    /\ call.amberfy_settings.add_graphics_fuzz_comment
    /\ call.amberfy_settings.short_description # None
    /\ call.amberfy_settings.comment_text # None
    /\ call.amberfy_settings.spirv_opt_args = Some(<<"-O", "--eliminate-dead-code">>)
    /\ call.amberfy_settings.spirv_opt_hash # None
    /\ ~call.amberfy_settings.use_default_fence_timeout
    /\ ret.ok
    /\ \A i \in 1..8 : HeaderSections(call.amberfy_settings)[i] # ""

-----------------------------------------------------------------------------
(* The orchestrator's claims *)

Rendered == pc \in {"write", "done"}

Script == result[1]

Settings == call.amberfy_settings

Extra == IF Truthy(Settings.extra_commands) THEN Settings.extra_commands[1] ELSE ""

EndsWith(s, p) == Len(s) >= Len(p) /\ SubSeq(s, Len(s) - Len(p) + 1, Len(s)) = p

\* The script up to the configured extra commands.
ScriptBody == SubSeq(Script, 1, Len(Script) - Len(Extra))

NumJobs == IF reference = NoJob THEN 1 ELSE 2

\* C1: a script of the graphics assembler holds one comparison directive less
\* than it has jobs: none for a variant alone; for a reference and a variant exactly
\* one, EXPECT <reference>_framebuffer RMSE_BUFFER <variant>_framebuffer TOLERANCE 7,
\* and never the reverse.
C1_OneComparisonPerNonFirstJob ==
    (Rendered /\ assembler = "graphics") =>
        /\ EndsWith(Script, Extra)
        /\ Count(ScriptBody, "EXPECT ") = NumJobs - 1
        /\ Count(ScriptBody, " RMSE_BUFFER ") = NumJobs - 1
        /\ Count(ScriptBody, " TOLERANCE 7") = NumJobs - 1
        /\ NumJobs = 2 =>
               /\ EndsWith(ScriptBody,
                      "\nEXPECT " \o reference.name_prefix \o "_framebuffer RMSE_BUFFER "
                      \o variant.name_prefix \o "_framebuffer TOLERANCE 7")
               /\ ~Contains(ScriptBody,
                      "EXPECT " \o variant.name_prefix \o "_framebuffer RMSE_BUFFER "
                      \o reference.name_prefix \o "_framebuffer")

\* A reference and a variant were rendered into one script with its comparison.
C1_Witness ==
    /\ pc = "done"
    /\ assembler = "graphics"
    /\ reference # NoJob
    /\ Count(ScriptBody, "EXPECT ") = 1
    /\ Extra # ""

Dispatched == pc \in {"write", "done"} \/ (pc = "failed" /\ variant # NoJob)

InconsistentPair == reference # NoJob /\ variant # NoJob /\ reference.kind # variant.kind

NoScript == result = None /\ out_file = None /\ writes = 0

\* C2 as stated: a pair of jobs of different kinds fails with
\* InconsistentTestPair, whichever of the two is the graphics job.
C2_Original ==
    (Dispatched /\ InconsistentPair) =>
        /\ pc = "failed"
        /\ ret = Raise("InconsistentTestPair")
        /\ NoScript

\* C2, amended: a graphics variant with a compute reference fails and gives
\* no script, with InconsistentTestPair when the header can be rendered and with the
\* header's IndexError otherwise; a compute variant with a graphics reference is
\* converted as the variant is without any reference.
C2_InconsistentGraphicsPairOnly ==
    (Dispatched /\ InconsistentPair) =>
        IF variant.kind = "GraphicsShaderJob"
        THEN /\ pc = "failed"
             /\ ret = IF get_amber_script_header(Settings).ok
                      THEN Raise("InconsistentTestPair") ELSE Raise("IndexError")
             /\ NoScript
        ELSE LET script == compute_shader_job_amber_test_to_amber_script(
                               [reference |-> NoJob, variant |-> variant], Settings)
             IN  /\ assembler = "compute"
                 /\ IF script.ok
                    THEN pc # "failed" /\ result = Some(script.val)
                    ELSE pc = "failed" /\ ret = script /\ NoScript

\* A graphics variant met a compute reference and the conversion failed.
C2_Witness ==
    /\ pc = "failed"
    /\ reference # NoJob
    /\ reference.kind = "ComputeShaderJob"
    /\ variant # NoJob
    /\ variant.kind = "GraphicsShaderJob"
    /\ ret = Raise("InconsistentTestPair")

\* C3: the destination is written at most once, and when it is written the
\* conversion is done with both jobs loaded and the file holds the whole script;
\* a conversion that is done has written it and returned its path; a conversion that
\* failed, in the reference or in the variant, has written nothing and returned no
\* path.
C3_NoPartialOutput ==
    /\ writes \in {0, 1}
    /\ writes = 1 <=> pc = "done"
    /\ pc = "done" =>
           /\ variant # NoJob
           /\ call.reference_asm_spirv_job # NoFile => reference # NoJob
           /\ result # None
           /\ out_file = result
           /\ out_file =
                  Some((IF variant.kind = "GraphicsShaderJob"
                        THEN graphics_shader_job_amber_test_to_amber_script(
                                 [reference |-> reference, variant |-> variant], Settings)
                        ELSE compute_shader_job_amber_test_to_amber_script(
                                 [reference |-> reference, variant |-> variant], Settings)
                       ).val)
           /\ EndsWith(out_file[1], Extra)
           /\ ret = Return(call.output_amber_script_file_path)
    /\ pc # "done" => out_file = None /\ (ret = Pending \/ ~ret.ok)
    /\ pc = "failed" =>
           ret.err \in {"UnsupportedType", "MissingRequiredStage", "AmbiguousJob",
                        "MalformedComputeBuffer", "InconsistentTestPair",
                        "UnknownJobKind", "MissingComputeKey", "IndexError"}

\* The variant failed after the reference had been loaded, and nothing was written.
C3_Witness ==
    /\ pc = "failed"
    /\ reference # NoJob
    /\ variant = NoJob
    /\ ret = Raise("MalformedComputeBuffer")
    /\ writes = 0

\* The file a loaded job came from.
FileOf(job) ==
    IF job.name_prefix = "reference" THEN call.reference_asm_spirv_job
    ELSE call.variant_asm_spirv_job

\* The job whose loading failed, when one did.
FailedFile ==
    IF call.reference_asm_spirv_job # NoFile /\ reference = NoJob
    THEN call.reference_asm_spirv_job
    ELSE call.variant_asm_spirv_job

LoadFailed == pc = "failed" /\ variant = NoJob

\* C8: a loaded job is a ComputeShaderJob iff exactly one compute-stage file
\* exists for it and a GraphicsShaderJob iff none does; loading a job with more than
\* one fails with AmbiguousJob; the orchestrator invokes the graphics assembler iff
\* the variant is a GraphicsShaderJob and the compute assembler iff it is a
\* ComputeShaderJob, and UnknownJobKind is raised for no variant of these two kinds.
C8_JobKindAndDispatch ==
    /\ \A job \in {reference, variant} \ {NoJob} :
           /\ job.kind \in {"GraphicsShaderJob", "ComputeShaderJob"}
           /\ job.kind = "ComputeShaderJob" <=> FileOf(job).n_comp_files = 1
           /\ job.kind = "GraphicsShaderJob" <=> FileOf(job).n_comp_files = 0
    /\ LoadFailed => (FailedFile.n_comp_files > 1 <=> ret = Raise("AmbiguousJob"))
    /\ Dispatched =>
           /\ assembler = "graphics" <=> variant.kind = "GraphicsShaderJob"
           /\ assembler = "compute" <=> variant.kind = "ComputeShaderJob"
    /\ ~Dispatched => assembler = "none"
    /\ ret # Raise("UnknownJobKind")

\* A compute variant went to the compute assembler beside a graphics reference.
C8_Witness ==
    /\ pc = "done"
    /\ variant.kind = "ComputeShaderJob"
    /\ call.variant_asm_spirv_job.n_comp_files = 1
    /\ assembler = "compute"
    /\ reference # NoJob
    /\ reference.kind = "GraphicsShaderJob"

-----------------------------------------------------------------------------
(* C9: shader stages *)

ScriptLines == Split(ScriptBody)

\* The line declares a shader of one of the stages as pass-through.
DeclaresPassthrough(line, stages) ==
    LET w == Words(line)
    IN  Len(w) = 4 /\ w[1] = "SHADER" /\ w[2] \in stages /\ w[4] = "PASSTHROUGH"

LoadedShaders ==
    UNION {IF job.kind = "GraphicsShaderJob"
           THEN {<<job.vertex_shader, job.name_prefix \o "_vertex_shader">>,
                 <<job.fragment_shader, job.name_prefix \o "_fragment_shader">>}
           ELSE {<<job.compute_shader, job.name_prefix \o "_compute_shader">>} :
           job \in {reference, variant} \ {NoJob}}

\* In the text of a declaration the comment block is there iff the shader has
\* source text, and the declaration is a SPIR-V-assembly body iff it has assembly
\* text, else pass-through.
ShaderDefShape(shader, name) ==
    LET text == get_amber_script_shader_def(shader, name)
        def == text.val
        decl == "\nSHADER " \o shader.shader_type \o " " \o name
    IN  text.ok =>
        /\ Contains(def, "# " \o name \o " is derived from the following GLSL:\n")
               <=> Truthy(shader.shader_source)
        /\ Contains(def, decl \o " SPIRV-ASM\n") <=> Truthy(shader.shader_spirv_asm)
        /\ Contains(def, decl \o " PASSTHROUGH\n") <=> ~Truthy(shader.shader_spirv_asm)
        /\ Truthy(shader.shader_source) /\ Truthy(shader.shader_spirv_asm) =>
               IndexOf(def, "# " \o name) < IndexOf(def, decl)

\* C9 as stated: shader declarations have the shape above, a job whose
\* fragment or compute assembly file is missing fails with MissingRequiredStage, and
\* no script declares a fragment or a compute shader as pass-through.
C9_Original ==
    /\ \A sh \in LoadedShaders : ShaderDefShape(sh[1], sh[2])
    /\ (LoadFailed /\ FailedFile.n_comp_files = 0 /\ FailedFile.frag_asm = None) =>
           ret = Raise("MissingRequiredStage")
    /\ Rendered =>
           \A i \in DOMAIN ScriptLines :
               ~DeclaresPassthrough(ScriptLines[i], {"fragment", "compute"})

-----------------------------------------------------------------------------
(* C10: the order of a graphics script *)

UniformNamesOf(json) ==
    LET keys == SelectSeq(json, NotReserved)
    IN  [i \in DOMAIN keys |-> keys[i].name]

Directives ==
    {"SHADER", "BUFFER", "PIPELINE", "ATTACH", "FRAMEBUFFER_SIZE", "BIND",
     "CLEAR_COLOR", "CLEAR", "RUN", "EXPECT"}

IsDirective(line) == Words(line) # <<>> /\ Words(line)[1] \in Directives

\* What a directive line is compared by: a shader or uniform declaration by its
\* kind and name, a uniform binding up to "AS uniform", any other line by all its
\* words.
DirectiveKey(line) ==
    LET w == Words(line)
    IN  IF w[1] = "SHADER" THEN SubSeq(w, 1, 3)
        ELSE IF w[1] = "BUFFER" /\ w[3] = "DATA_TYPE" THEN SubSeq(w, 1, 3)
        ELSE IF w[1] = "BIND" /\ w[5] = "uniform" THEN SubSeq(w, 1, 5)
        ELSE w

\* The directives of a text, in order.
Skeleton(text) ==
    LET lines == SelectSeq(Split(text), IsDirective)
    IN  [i \in DOMAIN lines |-> DirectiveKey(lines[i])]

\* The directives of one job's block, for its prefix p and its uniforms' names.
JobSkeleton(p, names) ==
    << <<"SHADER", "vertex", p \o "_vertex_shader">>,
       <<"SHADER", "fragment", p \o "_fragment_shader">> >>
    \o [i \in DOMAIN names |-> <<"BUFFER", p \o "_" \o names[i], "DATA_TYPE">>]
    \o << <<"BUFFER", p \o "_framebuffer", "FORMAT", "B8G8R8A8_UNORM">>,
          <<"PIPELINE", "graphics", p \o "_pipeline">>,
          <<"ATTACH", p \o "_vertex_shader">>,
          <<"ATTACH", p \o "_fragment_shader">>,
          <<"FRAMEBUFFER_SIZE", "256", "256">>,
          <<"BIND", "BUFFER", p \o "_framebuffer", "AS", "color", "LOCATION", "0">> >>
    \o [i \in DOMAIN names |-> <<"BIND", "BUFFER", p \o "_" \o names[i], "AS", "uniform">>]
    \o << <<"CLEAR_COLOR", p \o "_pipeline", "0", "0", "0", "255">>,
          <<"CLEAR", p \o "_pipeline">>,
          <<"RUN", p \o "_pipeline", "DRAW_RECT", "POS", "0", "0", "SIZE", "256", "256">> >>

ExpectedHeader == Join(HeaderSections(Settings), "")

\* C10: a graphics script is the header, then the reference's block if there
\* is a reference, then the variant's block, each block whole and in the fixed order
\* of its directives, then the comparison directives, then the extra commands as the
\* last text of the script.
C10_GraphicsScriptOrder ==
    (Rendered /\ assembler = "graphics") =>
        /\ StartsWithAt(Script, 1, ExpectedHeader)
        /\ EndsWith(Script, Extra)
        /\ Len(Script) >= Len(ExpectedHeader) + Len(Extra)
        /\ Skeleton(SubSeq(ScriptBody, Len(ExpectedHeader) + 1, Len(ScriptBody))) =
               (IF reference # NoJob
                THEN JobSkeleton(reference.name_prefix,
                                 UniformNamesOf(call.reference_asm_spirv_job.json))
                ELSE <<>>)
               \o JobSkeleton(variant.name_prefix,
                              UniformNamesOf(call.variant_asm_spirv_job.json))
               \o (IF reference # NoJob
                   THEN << <<"EXPECT", reference.name_prefix \o "_framebuffer",
                             "RMSE_BUFFER", variant.name_prefix \o "_framebuffer",
                             "TOLERANCE", "7">> >>
                   ELSE <<>>)

\* A reference and a variant with two uniforms were rendered, with extra commands
\* at the end.
C10_Witness ==
    /\ pc = "done"
    /\ assembler = "graphics"
    /\ reference # NoJob
    /\ UniformNamesOf(call.variant_asm_spirv_job.json) = <<"time", "res">>
    /\ Extra # ""
    /\ Len(Skeleton(ScriptBody)) = 29

-----------------------------------------------------------------------------
(* C11: the compute script and the reference *)

\* The jobs a reference of the pair can be: every job to_shader_job builds from a
\* reference file, of either kind.
ReferenceJobs ==
    {to_shader_job(f).val : f \in {g \in ReferenceFiles : to_shader_job(g).ok}}

\* The script the compute assembler returns for the variant paired with r.
ComputeScriptWith(r) ==
    compute_shader_job_amber_test_to_amber_script(
        [reference |-> r, variant |-> variant], Settings)

SsboName == variant.name_prefix \o "_ssbo"

ComputeShaderName == variant.name_prefix \o "_compute_shader"

SsboDeclaration == Format(variant.initial_buffer_definition_template, SsboName)

\* The directives of a compute script for prefix p, its uniforms' names and its
\* group-count string.
ComputeSkeleton(p, names, groups) ==
    << <<"SHADER", "compute", p \o "_compute_shader">> >>
    \o [i \in DOMAIN names |-> <<"BUFFER", p \o "_" \o names[i], "DATA_TYPE">>]
    \o << <<"BUFFER", p \o "_ssbo", "DATA_TYPE">>,
          <<"PIPELINE", "compute", "gfz_pipeline">>,
          <<"ATTACH", p \o "_compute_shader">>,
          <<"BIND", "BUFFER", p \o "_ssbo", "AS", "storage", "DESCRIPTOR_SET", "0",
            "BINDING", "0">> >>
    \o [i \in DOMAIN names |-> <<"BIND", "BUFFER", p \o "_" \o names[i], "AS", "uniform">>]
    \o << <<"RUN", "gfz_pipeline">> \o Words(groups) >>

\* C11: the script of the compute assembler is the same text whether the pair
\* has no reference or any reference job of either kind.  Up to the extra commands
\* it holds exactly one shader declaration, one SSBO declaration (the initial-data
\* template filled with <variant prefix>_ssbo), one compute pipeline that attaches
\* the shader and binds that SSBO as storage at descriptor set 0 binding 0 followed
\* by the variant's uniform bindings, one RUN with the variant's group-count string,
\* and no comparison directive.
C11_ComputeIgnoresReference ==
    (Rendered /\ assembler = "compute") =>
        /\ ComputeScriptWith(NoJob) = Return(Script)
        /\ \A r \in ReferenceJobs : ComputeScriptWith(r) = Return(Script)
        /\ EndsWith(Script, Extra)
        /\ Skeleton(ScriptBody) =
               ComputeSkeleton(variant.name_prefix,
                               UniformNamesOf(call.variant_asm_spirv_job.json),
                               amberscript_comp_num_groups_def(
                                   call.variant_asm_spirv_job.json))
        /\ Count(ScriptBody, "\n" \o SsboDeclaration) = 1
        /\ Contains(ScriptBody,
               "\nPIPELINE compute gfz_pipeline\n"
               \o "  ATTACH " \o ComputeShaderName \o "\n"
               \o "  BIND BUFFER " \o SsboName \o " AS storage DESCRIPTOR_SET 0 BINDING 0\n"
               \o variant.uniform_bindings
               \o "END\n"
               \o "\nRUN gfz_pipeline " \o variant.num_groups_def \o "\n")
        /\ Count(ScriptBody, "EXPECT") = 0

\* A compute variant with two uniforms was rendered for a pair that has a graphics
\* reference, with extra commands at the end.
C11_Witness ==
    /\ pc = "done"
    /\ assembler = "compute"
    /\ reference # NoJob
    /\ reference.kind = "GraphicsShaderJob"
    /\ UniformNamesOf(call.variant_asm_spirv_job.json) = <<"time", "res">>
    /\ Extra # ""
    /\ Len(Skeleton(ScriptBody)) = 10

-----------------------------------------------------------------------------
(* C12: names are declared before they are used *)

\* The words of every line of a sequence of lines.
RECURSIVE WordsOf(_)
WordsOf(lines) ==
    IF lines = <<>> THEN <<>> ELSE <<Words(Head(lines))>> \o WordsOf(Tail(lines))

ScriptWords == WordsOf(ScriptLines)

\* The names the lines of w before line i declare with the directive d, the name
\* being word k of the line.
DeclaredBefore(w, i, d, k) ==
    {w[j][k] : j \in {n \in 1..(i - 1) : Len(w[n]) >= k /\ w[n][1] = d}}

AttachLines(w) == {i \in DOMAIN w : Len(w[i]) >= 2 /\ w[i][1] = "ATTACH"}

BindLines(w) ==
    {i \in DOMAIN w : Len(w[i]) >= 3 /\ w[i][1] = "BIND" /\ w[i][2] = "BUFFER"}

\* The pipeline a line belongs to: the last PIPELINE line before it, 0 for none.
PipelineOf(w, i) ==
    LET starts == {j \in 1..(i - 1) : Len(w[j]) >= 1 /\ w[j][1] = "PIPELINE"}
    IN  IF starts = {} THEN 0 ELSE CHOOSE j \in starts : \A k \in starts : k <= j

\* The uniform buffers a job's definitions declare and the uniform bindings its
\* bindings make are those of the keys of its JSON other than $compute, in the
\* JSON's order, each binding at descriptor set 0 and the entry's binding index.
SameUniformNames(job) ==
    LET keys == SelectSeq(FileOf(job).json, NotReserved)
        p == job.name_prefix
        decls == SelectSeq(TextLines(job.uniform_definitions), IsBufferLine)
        binds == TextLines(job.uniform_bindings)
    IN  /\ Len(decls) = Len(keys)
        /\ Len(binds) = Len(keys)
        /\ \A i \in DOMAIN keys :
               /\ Words(decls[i])[2] = p \o "_" \o keys[i].name
               /\ Words(binds[i]) =
                      <<"BIND", "BUFFER", p \o "_" \o keys[i].name, "AS", "uniform",
                        "DESCRIPTOR_SET", "0", "BINDING",
                        PyStr(keys[i].entry.binding)>>

JobOf(file) == IF file.name_prefix = "reference" THEN reference ELSE variant

\* C12: in every script, each ATTACH line lies in a pipeline and names a
\* shader that a SHADER line above it declares, and each BIND BUFFER line
\* (framebuffer, SSBO, uniform) lies in a pipeline and names a buffer that a BUFFER
\* line above it declares.  The uniform definitions and the uniform bindings of every
\* job built hold the same <prefix>_<key> names in the same order, without $compute,
\* each binding at descriptor set 0 and the JSON's binding index.  A job whose
\* uniform definitions raise UnsupportedType is never built, and nothing is rendered
\* or written for its pair.
C12_DeclaredBeforeUse ==
    /\ Rendered =>
           LET w == ScriptWords
           IN  /\ \A i \in AttachLines(w) :
                      /\ PipelineOf(w, i) # 0
                      /\ w[i][2] \in DeclaredBefore(w, PipelineOf(w, i), "SHADER", 3)
               /\ \A i \in BindLines(w) :
                      /\ PipelineOf(w, i) # 0
                      /\ w[i][3] \in DeclaredBefore(w, PipelineOf(w, i), "BUFFER", 2)
    /\ \A job \in {reference, variant} \ {NoJob} : SameUniformNames(job)
    /\ \A file \in {call.reference_asm_spirv_job, call.variant_asm_spirv_job} \ {NoFile} :
           amberscript_uniform_buffer_def(file.json, file.name_prefix)
               = Raise("UnsupportedType")
           => JobOf(file) = NoJob /\ NoScript

\* A reference and a variant were rendered into one script; the variant's JSON has
\* $compute between two uniforms, and the script has four ATTACH lines and five
\* BIND BUFFER lines.
C12_Witness ==
    /\ pc = "done"
    /\ assembler = "graphics"
    /\ reference # NoJob
    /\ UniformNamesOf(call.variant_asm_spirv_job.json) = <<"time", "res">>
    /\ HasKey(call.variant_asm_spirv_job.json, COMPUTE_KEY)
    /\ Cardinality(AttachLines(ScriptWords)) = 4
    /\ Cardinality(BindLines(ScriptWords)) = 5

====
